---------------------------- MODULE Spec2Model ----------------------------
(***************************************************************************)
(* A model of the two batch scripts of flash-attention3-wheels:            *)
(*   scripts/generate_matrix.py  (the CI build-matrix generator)           *)
(*   scripts/generate_pages.py   (the wheel index page generator)          *)
(* Python strings are modelled as sequences of one-character strings, so   *)
(* that parsing, splitting, formatting and comparison are computed as the  *)
(* code computes them.                                                     *)
(***************************************************************************)
EXTENDS Integers, Sequences, FiniteSets, TLC

VARIABLES
    prog,            \* which script this process runs: "matrix" or "pages"
    pc,              \* position of the running script
    url,             \* generate_matrix.py: cursor of the pagination loop
    log,             \* generate_matrix.py: the responses received, in order
    tags,            \* generate_matrix.py: tags
    matches,         \* generate_matrix.py: matches
    latest,          \* generate_matrix.py: latest
    cuda_full_map,   \* generate_matrix.py: cuda_full_map
    target,          \* generate_matrix.py: target
    cuda_versions,   \* generate_matrix.py: cuda_versions
    torch_versions,  \* generate_matrix.py: torch_versions
    ci,              \* generate_matrix.py: index of the outer for loop
    matrix,          \* generate_matrix.py: matrix["include"]
    output_file,     \* generate_matrix.py: blocks appended to $GITHUB_OUTPUT
    stdout,          \* generate_matrix.py: what was printed
    exit_code,       \* generate_matrix.py: process exit status (-1: running)
    releases,        \* generate_pages.py: the releases the API returned
    ri,              \* generate_pages.py: index of the release loop
    organized,       \* generate_pages.py: organized (dict, insertion order)
    gi,              \* generate_pages.py: index of the sub-index loop
    files,           \* generate_pages.py: the output directory, path -> page
    written,         \* generate_pages.py: paths written by the current run
    clock,           \* generate_pages.py: what datetime.now() returns next
    run,             \* generate_pages.py: number of the current run
    snapshot         \* generate_pages.py: the output directory after run 1

matrixVars == <<url, log, tags, matches, latest, cuda_full_map, target,
                cuda_versions, torch_versions, ci, matrix, output_file,
                stdout, exit_code>>
pagesVars == <<releases, ri, organized, gi, files, written, clock, run, snapshot>>
vars == <<prog, pc, matrixVars, pagesVars>>

(***************************************************************************)
(* Bounds of the model.                                                    *)
(***************************************************************************)
MaxPages == 3
MaxReleases == 2
MaxRuns == 2

\* An optional value is a sequence of at most one element: None is empty
None == <<>>

Some(x) == <<x>>

(***************************************************************************)
(* Characters and strings.                                                 *)
(***************************************************************************)
Ascii == <<" ", "+", "-", ".",
           "0", "1", "2", "3", "4", "5", "6", "7", "8", "9", ":",
           "A", "B", "C", "D", "E", "F", "G", "H", "I", "J", "K", "L", "M",
           "N", "O", "P", "Q", "R", "S", "T", "U", "V", "W", "X", "Y", "Z",
           "_",
           "a", "b", "c", "d", "e", "f", "g", "h", "i", "j", "k", "l", "m",
           "n", "o", "p", "q", "r", "s", "t", "u", "v", "w", "x", "y", "z">>

Ord(c) == CHOOSE i \in 1..Len(Ascii) : Ascii[i] = c

Digits == <<"0", "1", "2", "3", "4", "5", "6", "7", "8", "9">>


DigitVal(c) == (CHOOSE i \in 1..Len(Digits) : Digits[i] = c) - 1

UpperChars == {Ascii[i] : i \in Ord("A")..Ord("Z")}

LowerChars == {Ascii[i] : i \in Ord("a")..Ord("z")}

DigitChars == {Digits[i] : i \in 1..Len(Digits)}

\* the lower-case letter of every upper-case letter
LowerOf == [c \in UpperChars |-> Ascii[Ord(c) - Ord("A") + Ord("a")]]

IsDigit(c) == c \in DigitChars

IsUpper(c) == c \in UpperChars

IsLower(c) == c \in LowerChars

IsLetter(c) == IsUpper(c) \/ IsLower(c)

ToLower(c) == IF IsUpper(c) THEN LowerOf[c] ELSE c

Lower(s) == [i \in 1..Len(s) |-> ToLower(s[i])]

\* s[i:j] of Python with 1-based inclusive bounds; empty when i > j
Slice(s, i, j) == IF i > j THEN <<>> ELSE SubSeq(s, i, j)

\* Python's a < b on strings: lexicographic by code point, decided at the
\* first index where the two differ, a proper prefix being the smaller
StrLess(a, b) ==
    LET n == IF Len(a) < Len(b) THEN Len(a) ELSE Len(b)
        diff == {i \in 1..n : a[i] # b[i]}
    IN IF diff = {} THEN Len(a) < Len(b)
       ELSE LET d == CHOOSE i \in diff : \A j \in diff : i <= j
            IN Ord(a[d]) < Ord(b[d])

RECURSIVE DigitRun(_, _)
\* the index after the longest run of digits of s that starts at index i
DigitRun(s, i) ==
    IF i <= Len(s) /\ IsDigit(s[i]) THEN DigitRun(s, i + 1) ELSE i

RECURSIVE ParseInt(_)
\* int(ds) for a non-empty string of digits
ParseInt(ds) ==
    IF ds = <<>> THEN 0
    ELSE ParseInt(SubSeq(ds, 1, Len(ds) - 1)) * 10 + DigitVal(ds[Len(ds)])

RECURSIVE IntToStr(_)
\* str(n) for n >= 0
IntToStr(n) ==
    IF n < 10 THEN <<Digits[n + 1]>>
    ELSE IntToStr(n \div 10) \o <<Digits[(n % 10) + 1]>>

RECURSIVE SplitDot(_)
\* v.split(".")
SplitDot(v) ==
    IF \A i \in 1..Len(v) : v[i] # "." THEN <<v>>
    ELSE LET d == CHOOSE i \in 1..Len(v) :
                      v[i] = "." /\ \A j \in 1..(i - 1) : v[j] # "."
         IN <<Slice(v, 1, d - 1)>> \o SplitDot(Slice(v, d + 1, Len(v)))

\* v.rsplit(".", 1)[0]
RSplitHead(v) ==
    IF \A i \in 1..Len(v) : v[i] # "." THEN v
    ELSE LET d == CHOOSE i \in 1..Len(v) :
                      v[i] = "." /\ \A j \in (i + 1)..Len(v) : v[j] # "."
         IN Slice(v, 1, d - 1)

RECURSIVE Strip(_)
\* v.strip(), for the whitespace of the alphabet
Strip(v) ==
    IF v = <<>> THEN v
    ELSE IF Head(v) = " " THEN Strip(Tail(v))
    ELSE IF v[Len(v)] = " " THEN Strip(SubSeq(v, 1, Len(v) - 1))
    ELSE v


(***************************************************************************)
(* generate_matrix.py                                                      *)
(***************************************************************************)
DevelSuffix == <<"-", "d", "e", "v", "e", "l", "-", "u", "b", "u", "n", "t", "u", "2", "2", ".", "0", "4">>

Tag(name) == [name |-> name]

\* Pages the tag-listing API may answer with (resp["results"])
PagePool ==
    { <<Tag(<<"1", "2", ".", "8", ".", "0">> \o DevelSuffix),
        Tag(<<"1", "2", ".", "8", ".", "1">> \o DevelSuffix)>>,
      <<Tag(<<"1", "2", ".", "9", ".", "1">> \o DevelSuffix),
        Tag(<<"1", "2", ".", "9", ".", "0">> \o DevelSuffix)>>,
      <<Tag(<<"1", "3", ".", "0", ".", "2">> \o DevelSuffix),
        Tag(<<"1", "3", ".", "0", ".", "3", "-", "r", "u", "n", "t", "i", "m", "e", "-", "u", "b", "u", "n", "t", "u", "2", "2", ".", "0", "4">>)>>,
      <<Tag(<<"1", "2", ".", "9", ".", "1", "0">> \o DevelSuffix),
        Tag(<<"1", "2", ".", "9", ".", "9">> \o DevelSuffix)>>,
      <<Tag(<<"1", "2", ".", "4", ".", "1">> \o DevelSuffix),
        Tag(<<"1", "2", ".", "4", ".", "0">> \o DevelSuffix),
        Tag(<<"1", "2", ".", "8", ".", "1", "-", "c", "u", "d", "n", "n">> \o DevelSuffix)>>,
      <<>> }

\* What the "next" member of page number n of a chain may be: the URL of
\* page n + 1, null, or no member at all.  The chain is finite.
NextCursors(n) ==
    {[kind |-> "null"], [kind |-> "absent"]}
      \cup (IF n < MaxPages THEN {[kind |-> "url", page |-> n + 1]} ELSE {})

\* resp.get("next")
GetNext(resp) ==
    IF resp.next.kind = "url" THEN Some(resp.next.page) ELSE None

\* a variant that assigns the page instead of extending the list
ExtendReplace(ts, results) == results

\* tags.extend(resp["results"])
Extend(ts, results) == ts \o results

\* pattern.match(name).groups() for
\* ^(\d+)\.(\d+)\.(\d+)-devel-ubuntu22\.04$ ; <<>> when there is no match
TagMatch(name) ==
    LET a == DigitRun(name, 1)
        b == DigitRun(name, a + 1)
        c == DigitRun(name, b + 1)
    IN IF /\ a > 1
          /\ a <= Len(name) /\ name[a] = "."
          /\ b > a + 1
          /\ b <= Len(name) /\ name[b] = "."
          /\ c > b + 1
          /\ Slice(name, c, Len(name)) = DevelSuffix
       THEN <<Slice(name, 1, a - 1), Slice(name, a + 1, b - 1),
              Slice(name, b + 1, c - 1)>>
       ELSE <<>>

RECURSIVE CollectMatches(_)
\* the loop "for t in tags" that fills matches
CollectMatches(ts) ==
    IF ts = <<>> THEN <<>>
    ELSE LET m == TagMatch(Head(ts).name)
         IN (IF m # <<>>
             THEN << <<m[1] \o <<".">> \o m[2], ParseInt(m[3])>> >>
             ELSE <<>>) \o CollectMatches(Tail(ts))

\* a variant that lets every match replace the entry of its key
NewerAlways(acc, key, patch) == TRUE

\* the test that decides whether a match replaces the entry of its key
Newer(acc, key, patch) == key \notin DOMAIN acc \/ patch > acc[key][2]

\* latest[key] = value
DictSet(d, key, value) ==
    [k \in DOMAIN d \cup {key} |-> IF k = key THEN value ELSE d[k]]

RECURSIVE ReduceLatestFrom(_, _)
\* the loop "for major_minor, patch in matches" that fills latest
ReduceLatestFrom(ms, acc) ==
    IF ms = <<>> THEN acc
    ELSE LET key == Head(ms)[1]
             patch == Head(ms)[2]
         IN ReduceLatestFrom(Tail(ms),
                IF Newer(acc, key, patch)
                THEN DictSet(acc, key, <<key, patch>>)
                ELSE acc)

EmptyDict == [k \in {} |-> <<>>]

LatestOf(ms) == ReduceLatestFrom(ms, EmptyDict)

\* {k: f"{k}.{v[1]}" for k, v in latest.items()}
CudaFullMapOf(lt) == [k \in DOMAIN lt |-> k \o <<".">> \o IntToStr(lt[k][2])]

\* values of the MATRIX_TARGET environment variable
TargetEnv == { None, Some(<<"W", "i", "n", "d", "o", "w", "s">>), Some(<<"a", "r", "m">>),
              Some(<<"m", "a", "c", "o", "s">>) }

\* os.getenv("MATRIX_TARGET", "linux").lower()
TargetOf(env) ==
    Lower(IF env = None THEN <<"l", "i", "n", "u", "x">> ELSE env[1])

CudaVersionsOf(t) ==
    IF t = <<"w", "i", "n", "d", "o", "w", "s">> THEN <<<<"1", "2", ".", "8">>, <<"1", "2", ".", "9">>>>
    ELSE IF t = <<"a", "r", "m">> THEN <<<<"1", "2", ".", "9">>, <<"1", "3", ".", "0">>>>
    ELSE <<<<"1", "2", ".", "8">>, <<"1", "2", ".", "9">>, <<"1", "3", ".", "0">>>>

TorchVersionsOf(t) ==
    IF t = <<"w", "i", "n", "d", "o", "w", "s">> THEN <<<<"2", ".", "9", ".", "0">>>>
    ELSE <<<<"2", ".", "8", ".", "0">>, <<"2", ".", "9", ".", "1">>>>

BLACKLIST == [k \in {<<"2", ".", "8">>} |-> <<"1", "2", ".", "9">>]

ver2tuple(v) == LET parts == SplitDot(v)
                IN [i \in 1..Len(parts) |-> ParseInt(parts[i])]

RECURSIVE TupleGT(_, _)
\* Python's a > b on tuples of integers
TupleGT(a, b) ==
    IF a = <<>> THEN FALSE
    ELSE IF b = <<>> THEN TRUE
    ELSE IF Head(a) = Head(b) THEN TupleGT(Tail(a), Tail(b))
    ELSE Head(a) > Head(b)

\* a variant that takes the major version alone as the key of BLACKLIST
ExcludedSplitFirst(cuda, torch) ==
    LET torch_major == SplitDot(torch)[1]
    IN /\ torch_major \in DOMAIN BLACKLIST
       /\ TupleGT(ver2tuple(cuda), ver2tuple(BLACKLIST[torch_major]))

\* the test of the inner loop that ends in "continue"
Excluded(cuda, torch) ==
    LET torch_major == RSplitHead(torch)
    IN /\ torch_major \in DOMAIN BLACKLIST
       /\ TupleGT(ver2tuple(cuda), ver2tuple(BLACKLIST[torch_major]))

RECURSIVE TorchEntriesBreak(_, _, _)
\* a variant whose exclusion test ends the inner loop ("break")
TorchEntriesBreak(cuda, cuda_full, torchs) ==
    IF torchs = <<>> THEN <<>>
    ELSE IF Excluded(cuda, Head(torchs)) THEN <<>>
    ELSE <<[cuda |-> cuda, cuda_full |-> cuda_full,
            torch |-> Strip(Head(torchs))]>>
         \o TorchEntriesBreak(cuda, cuda_full, Tail(torchs))

RECURSIVE TorchEntries(_, _, _)
\* the loop "for torch in torch_versions" for one cuda version
TorchEntries(cuda, cuda_full, torchs) ==
    IF torchs = <<>> THEN <<>>
    ELSE (IF Excluded(cuda, Head(torchs)) THEN <<>>
          ELSE <<[cuda |-> cuda, cuda_full |-> cuda_full,
                  torch |-> Strip(Head(torchs))]>>)
         \o TorchEntries(cuda, cuda_full, Tail(torchs))

\* assert cuda in cuda_full_map
AssertHolds(cuda, map) == cuda \in DOMAIN map

PagesIdle ==
    /\ releases = <<>>
    /\ ri = 0
    /\ organized = <<>>
    /\ gi = 0
    /\ files = EmptyDict
    /\ written = {}
    /\ clock = 0
    /\ run = 0
    /\ snapshot = EmptyDict

MatrixInit ==
    /\ prog = "matrix"
    /\ pc = "fetch"
    /\ url = Some(1)
    /\ log = <<>>
    /\ tags = <<>>
    /\ matches = <<>>
    /\ latest = EmptyDict
    /\ cuda_full_map = EmptyDict
    /\ target = <<>>
    /\ cuda_versions = <<>>
    /\ torch_versions = <<>>
    /\ ci = 0
    /\ matrix = <<>>
    /\ output_file = <<>>
    /\ stdout = <<>>
    /\ exit_code = -1
    /\ PagesIdle

\* one iteration of "while url": request the page, extend tags, follow next
FetchPage ==
    /\ prog = "matrix" /\ pc = "fetch"
    /\ url # None
    /\ \E results \in PagePool, nx \in NextCursors(Len(log) + 1) :
         LET resp == [results |-> results, next |-> nx]
         IN /\ tags' = Extend(tags, resp.results)
            /\ url' = GetNext(resp)
            /\ log' = Append(log, [url |-> url, resp |-> resp])
    /\ UNCHANGED <<prog, pc, matches, latest, cuda_full_map, target,
                   cuda_versions, torch_versions, ci, matrix, output_file,
                   stdout, exit_code, pagesVars>>

\* the loop has ended; filter the tag names
ParseTags ==
    /\ prog = "matrix" /\ pc = "fetch"
    /\ url = None
    /\ matches' = CollectMatches(tags)
    /\ pc' = "reduce"
    /\ UNCHANGED <<prog, url, log, tags, latest, cuda_full_map, target,
                   cuda_versions, torch_versions, ci, matrix, output_file,
                   stdout, exit_code, pagesVars>>

\* keep the latest patch of every major.minor and build cuda_full_map
ReduceLatest ==
    /\ prog = "matrix" /\ pc = "reduce"
    /\ latest' = LatestOf(matches)
    /\ cuda_full_map' = CudaFullMapOf(latest')
    /\ pc' = "select"
    /\ UNCHANGED <<prog, url, log, tags, matches, target, cuda_versions,
                   torch_versions, ci, matrix, output_file, stdout,
                   exit_code, pagesVars>>

\* read MATRIX_TARGET and pick the version lists
SelectTarget ==
    /\ prog = "matrix" /\ pc = "select"
    /\ \E env \in TargetEnv : target' = TargetOf(env)
    /\ cuda_versions' = CudaVersionsOf(target')
    /\ torch_versions' = TorchVersionsOf(target')
    /\ matrix' = <<>>
    /\ ci' = 1
    /\ pc' = "loop"
    /\ UNCHANGED <<prog, url, log, tags, matches, latest, cuda_full_map,
                   output_file, stdout, exit_code, pagesVars>>

\* one iteration of "for cuda in cuda_versions" whose assertion holds
CudaIteration ==
    /\ prog = "matrix" /\ pc = "loop"
    /\ ci <= Len(cuda_versions)
    /\ LET cuda == Strip(cuda_versions[ci])
       IN /\ AssertHolds(cuda, cuda_full_map)
          /\ matrix' = matrix \o
                 TorchEntries(cuda, cuda_full_map[cuda], torch_versions)
    /\ ci' = ci + 1
    /\ UNCHANGED <<prog, pc, url, log, tags, matches, latest, cuda_full_map,
                   target, cuda_versions, torch_versions, output_file,
                   stdout, exit_code, pagesVars>>

\* a variant that skips a missing version and goes on
AssertionFailureSkipped ==
    /\ prog = "matrix" /\ pc = "loop"
    /\ ci <= Len(cuda_versions)
    /\ ~AssertHolds(Strip(cuda_versions[ci]), cuda_full_map)
    /\ ci' = ci + 1
    /\ UNCHANGED <<prog, pc, url, log, tags, matches, latest, cuda_full_map,
                   target, cuda_versions, torch_versions, matrix,
                   output_file, stdout, exit_code, pagesVars>>

\* the assertion of an iteration fails: the process aborts
AssertionFailure ==
    /\ prog = "matrix" /\ pc = "loop"
    /\ ci <= Len(cuda_versions)
    /\ ~AssertHolds(Strip(cuda_versions[ci]), cuda_full_map)
    /\ pc' = "aborted"
    /\ exit_code' = 1
    /\ UNCHANGED <<prog, url, log, tags, matches, latest, cuda_full_map,
                   target, cuda_versions, torch_versions, ci, matrix,
                   output_file, stdout, pagesVars>>

\* json.dumps(matrix, ...): the serialised value, kept structured
MatrixJson(m) == [include |-> m]

\* the loop has ended: append to $GITHUB_OUTPUT when it is set, and print
Emit ==
    /\ prog = "matrix" /\ pc = "loop"
    /\ ci > Len(cuda_versions)
    /\ \E has_output \in BOOLEAN :
         output_file' =
            IF has_output
            THEN Append(output_file,
                        [name |-> "matrix", value |-> MatrixJson(matrix)])
            ELSE output_file
    /\ stdout' = <<"Generated matrix:", MatrixJson(matrix)>>
    /\ pc' = "done"
    /\ exit_code' = 0
    /\ UNCHANGED <<prog, url, log, tags, matches, latest, cuda_full_map,
                   target, cuda_versions, torch_versions, ci, matrix,
                   pagesVars>>

MatrixNext ==
    \/ FetchPage
    \/ ParseTags
    \/ ReduceLatest
    \/ SelectTarget
    \/ CudaIteration
    \/ AssertionFailure
    \/ Emit

MatrixSpec == MatrixInit /\ [][MatrixNext]_vars

\* the interpreter runs the next iteration of the fetch loop while the loop
\* condition holds (requests.get blocks until the page arrives)
MatrixFairSpec == MatrixSpec /\ WF_vars(FetchPage)

(***************************************************************************)
(* generate_pages.py                                                       *)
(***************************************************************************)
\* v.split(ch)
RECURSIVE SplitChar(_, _)
SplitChar(v, ch) ==
    IF \A i \in 1..Len(v) : v[i] # ch THEN <<v>>
    ELSE LET d == CHOOSE i \in 1..Len(v) :
                      v[i] = ch /\ \A j \in 1..(i - 1) : v[j] # ch
         IN <<Slice(v, 1, d - 1)>> \o SplitChar(Slice(v, d + 1, Len(v)), ch)

\* s.endswith(suffix)
EndsWith(s, suffix) ==
    /\ Len(s) >= Len(suffix)
    /\ Slice(s, Len(s) - Len(suffix) + 1, Len(s)) = suffix

\* sub in s
Contains(s, sub) ==
    \E i \in 1..(Len(s) - Len(sub) + 1) : SubSeq(s, i, i + Len(sub) - 1) = sub

DotWhl == <<".", "w", "h", "l">>

(* WHEEL_RE, matched with re.I from the start of the name.  Every step    *)
(* takes the index where it starts and gives the index after what it      *)
(* matched, or 0 when it does not match.                                  *)

\* a literal, letters compared without case
LitAt(s, i, l) ==
    IF /\ i > 0
       /\ i + Len(l) - 1 <= Len(s)
       /\ \A k \in 1..Len(l) : ToLower(s[i + k - 1]) = ToLower(l[k])
    THEN i + Len(l) ELSE 0

\* \d+
DigitsAt(s, i) ==
    IF i > 0 /\ DigitRun(s, i) > i THEN DigitRun(s, i) ELSE 0

\* \d{n}
DigitsN(s, i, n) ==
    IF /\ i > 0
       /\ i + n - 1 <= Len(s)
       /\ \A k \in i..(i + n - 1) : IsDigit(s[k])
    THEN i + n ELSE 0

\* [.+]
SepAt(s, i) ==
    IF i > 0 /\ i <= Len(s) /\ s[i] \in {".", "+"} THEN i + 1 ELSE 0

RECURSIVE LetterRun(_, _)
\* the index after the longest run of [a-zA-Z] that starts at index i
LetterRun(s, i) ==
    IF i <= Len(s) /\ IsLetter(s[i]) THEN LetterRun(s, i + 1) ELSE i

\* (?:[a-zA-Z]+\d*)?  -- what follows is [.+], so the runs are the longest
SuffixAt(s, i) ==
    IF i > 0 /\ i <= Len(s) /\ IsLetter(s[i])
    THEN DigitRun(s, LetterRun(s, i)) ELSE i

IsHex(c) == IsDigit(c) \/ ToLower(c) \in {"a", "b", "c", "d", "e", "f"}

RECURSIVE HexRun(_, _)
HexRun(s, i) == IF i <= Len(s) /\ IsHex(s[i]) THEN HexRun(s, i + 1) ELSE i

\* [a-f0-9]+
HexAt(s, i) == IF i > 0 /\ HexRun(s, i) > i THEN HexRun(s, i) ELSE 0

IsPlatformChar(c) == IsDigit(c) \/ IsLetter(c) \/ c = "_"

RECURSIVE PlatformRun(_, _)
PlatformRun(s, i) ==
    IF i <= Len(s) /\ IsPlatformChar(s[i]) THEN PlatformRun(s, i + 1) ELSE i

\* true|false
AbiAt(s, i) ==
    IF LitAt(s, i, <<"t", "r", "u", "e">>) > 0 THEN LitAt(s, i, <<"t", "r", "u", "e">>)
    ELSE LitAt(s, i, <<"f", "a", "l", "s", "e">>)

\* -.+-(?P<platform>[a-z0-9_]+)\.whl from index i: the indices of a "-" that
\* leaves at least one character to .+ and is followed by a platform and
\* ".whl"; the greedy .+ takes the last of them
PlatformDashes(s, i) ==
    IF LitAt(s, i, <<"-">>) = 0 THEN {}
    ELSE {x \in (i + 2)..Len(s) :
             /\ s[x] = "-"
             /\ PlatformRun(s, x + 1) > x + 1
             /\ LitAt(s, PlatformRun(s, x + 1), DotWhl) > 0}

\* WHEEL_RE.match(name): the named groups, or None
WheelMatch(name) ==
    LET p0 == LitAt(name, 1, <<"f", "l", "a", "s", "h", "_", "a", "t", "t", "n", "_", "3", "-">>)
        p1 == DigitsAt(name, LitAt(name, DigitsAt(name,
                  LitAt(name, DigitsAt(name, p0), <<".">>)), <<".">>))
        p2 == IF p1 > 0 THEN SuffixAt(name, p1) ELSE 0
        p3 == SepAt(name, p2)
        p4 == DigitsN(name, p3, 8)
        p5 == LitAt(name, SepAt(name, p4), <<"c", "u">>)
        p6 == DigitsN(name, p5, 3)
        p7 == LitAt(name, p6, <<"t", "o", "r", "c", "h">>)
        p8 == DigitsN(name, p7, 3)
        p9 == LitAt(name, p8, <<"c", "x", "x", "1", "1", "a", "b", "i">>)
        p10 == AbiAt(name, p9)
        p11 == HexAt(name, SepAt(name, p10))
        p12 == LitAt(name, p11, <<"-", "c", "p">>)
        p13 == DigitsN(name, p12, 2)
        dashes == PlatformDashes(name, p13)
    IN IF p13 = 0 \/ dashes = {} THEN None
       ELSE LET x == CHOOSE d \in dashes : \A e \in dashes : e <= d
            IN Some([base |-> Slice(name, p0, p2 - 1),
                     date |-> Slice(name, p3, p4 - 1),
                     cuda |-> Slice(name, p5, p6 - 1),
                     torch |-> Slice(name, p7, p8 - 1),
                     abi |-> Slice(name, p9, p10 - 1),
                     py |-> Slice(name, p12, p13 - 1),
                     platform |-> Slice(name, x + 1, PlatformRun(name, x + 1) - 1)])

\* WheelIndexGenerator.parse_wheel_info
parse_wheel_info(filename) ==
    LET m == WheelMatch(filename)
    IN IF m = None THEN None
       ELSE Some([filename |-> filename,
                  base_version |-> m[1].base,
                  build_date |-> m[1].date,
                  cuda_version |-> m[1].cuda,
                  torch_version |-> m[1].torch,
                  cxx11_abi |-> m[1].abi,
                  python_version |-> <<m[1].py[1]>> \o <<".">> \o Tail(m[1].py),
                  platform |-> m[1].platform])

\* a variant that repeats the cuda code where the torch code belongs
GroupKeyCudaTwice(info) ==
    <<"c", "u">> \o info.cuda_version \o <<"_", "t", "o", "r", "c", "h">> \o info.cuda_version

\* f"cu{cuda_ver}_torch{torch_ver}"
GroupKey(info) ==
    <<"c", "u">> \o info.cuda_version \o <<"_", "t", "o", "r", "c", "h">> \o info.torch_version

\* a variant that tests the two platform families independently
PlatformTagsIndependent(platform) ==
    (IF Contains(platform, <<"w", "i", "n">>) THEN {"windows"} ELSE {})
      \cup (IF Contains(platform, <<"a", "a", "r", "c", "h", "6", "4">>)
               \/ Contains(platform, <<"a", "r", "m", "6", "4">>)
            THEN {"arm64"} ELSE {})

\* the tags one asset adds to its group ("if ... elif ...")
PlatformTags(platform) ==
    IF Contains(platform, <<"w", "i", "n">>) THEN {"windows"}
    ELSE IF Contains(platform, <<"a", "a", "r", "c", "h", "6", "4">>)
            \/ Contains(platform, <<"a", "r", "m", "6", "4">>)
    THEN {"arm64"}
    ELSE {}

\* the index of the group of a key in organized, 0 when there is none
GroupIndex(org, key) ==
    IF \E i \in 1..Len(org) : org[i].key = key
    THEN CHOOSE i \in 1..Len(org) : org[i].key = key
    ELSE 0

\* the body of "if info:" for one asset
AddWheel(org, release_date, asset, info) ==
    LET key == GroupKey(info)
        org1 == IF GroupIndex(org, key) = 0
                THEN Append(org, [key |-> key, wheels |-> <<>>, tags |-> {}])
                ELSE org
        g == GroupIndex(org1, key)
        wheel == [filename |-> info.filename,
                  download_url |-> asset.browser_download_url,
                  size |-> asset.size,
                  created_at |-> asset.created_at,
                  python_version |-> info.python_version,
                  flash_version |-> info.base_version,
                  release_date |-> release_date,
                  cuda_version |-> info.cuda_version,
                  torch_version |-> info.torch_version]
    IN [org1 EXCEPT ![g] = [key |-> key,
                            wheels |-> Append(org1[g].wheels, wheel),
                            tags |-> org1[g].tags \cup PlatformTags(info.platform)]]

\* a variant without the test of the ".whl" ending
OrganizeAssetAnyName(org, release_date, asset) ==
    LET info == parse_wheel_info(asset.name)
    IN IF info # None THEN AddWheel(org, release_date, asset, info[1]) ELSE org

\* the body of "for asset in release['assets']"
OrganizeAsset(org, release_date, asset) ==
    IF EndsWith(asset.name, DotWhl)
    THEN LET info == parse_wheel_info(asset.name)
         IN IF info # None
            THEN AddWheel(org, release_date, asset, info[1])
            ELSE org
    ELSE org

RECURSIVE OrganizeAssets(_, _, _)
OrganizeAssets(org, release_date, assets) ==
    IF assets = <<>> THEN org
    ELSE OrganizeAssets(OrganizeAsset(org, release_date, Head(assets)),
                        release_date, Tail(assets))

\* release["published_at"][:10]
ReleaseDate(release) == Slice(release.published_at, 1, 10)

RECURSIVE InsertByFilename(_, _)
\* w placed after every wheel whose filename is not greater (stable)
InsertByFilename(sorted, w) ==
    IF sorted = <<>> THEN <<w>>
    ELSE IF StrLess(w.filename, Head(sorted).filename) THEN <<w>> \o sorted
    ELSE <<Head(sorted)>> \o InsertByFilename(Tail(sorted), w)

RECURSIVE SortByFilename(_)
\* sorted(wheels, key=lambda x: x["filename"])
SortByFilename(wheels) ==
    IF wheels = <<>> THEN <<>>
    ELSE InsertByFilename(SortByFilename(SubSeq(wheels, 1, Len(wheels) - 1)),
                          wheels[Len(wheels)])

RECURSIVE InsertByKeyDesc(_, _)
InsertByKeyDesc(sorted, g) ==
    IF sorted = <<>> THEN <<g>>
    ELSE IF StrLess(Head(sorted).key, g.key) THEN <<g>> \o sorted
    ELSE <<Head(sorted)>> \o InsertByKeyDesc(Tail(sorted), g)

RECURSIVE SortItemsReverse(_)
\* sorted(organized_wheels.items(), reverse=True); the keys are distinct
SortItemsReverse(org) ==
    IF org = <<>> THEN <<>>
    ELSE InsertByKeyDesc(SortItemsReverse(SubSeq(org, 1, Len(org) - 1)),
                         org[Len(org)])

\* WheelIndexGenerator.generate_simple_index: what the page varies in
generate_simple_index(wheels, cuda_version, torch_version, now) ==
    LET sorted == SortByFilename(wheels)
    IN [kind |-> "simple",
        cuda_version |-> cuda_version,
        torch_version |-> torch_version,
        generated_on |-> now,
        links |-> [i \in 1..Len(sorted) |->
                      [href |-> sorted[i].download_url,
                       text |-> sorted[i].filename]]]

RECURSIVE MaxDate(_)
\* max(w["release_date"] for w in wheels), wheels not empty
MaxDate(wheels) ==
    IF Len(wheels) = 1 THEN wheels[1].release_date
    ELSE LET m == MaxDate(SubSeq(wheels, 1, Len(wheels) - 1))
         IN IF StrLess(m, wheels[Len(wheels)].release_date)
            THEN wheels[Len(wheels)].release_date ELSE m

\* a variant that shows the time of generation as the date of the update
LastUpdatedNow(wheels) == IntToStr(clock)

\* last_updated of a card
LastUpdated(wheels) == MaxDate(wheels)

\* the card of one group of the landing page
Card(group) ==
    LET wheels == group.wheels
        cudaver == wheels[1].cuda_version
        torch_ver == wheels[1].torch_version
    IN [heading_cuda |-> Slice(cudaver, 1, 2) \o <<".">> \o Slice(cudaver, 3, Len(cudaver)),
        heading_torch |-> <<torch_ver[1]>> \o <<".">> \o <<torch_ver[2]>> \o <<".">>
                            \o Slice(torch_ver, 3, Len(torch_ver)),
        tags_html |-> (IF "windows" \in group.tags THEN <<"windows-badge">> ELSE <<>>)
                        \o (IF "arm64" \in group.tags THEN <<"arm64-badge">> ELSE <<>>),
        wheel_count |-> Len(wheels),
        last_updated |-> LastUpdated(wheels),
        href |-> group.key \o <<"/", "i", "n", "d", "e", "x", ".", "h", "t", "m", "l">>,
        find_links |-> group.key,
        extra_index |-> <<"c", "u">> \o cudaver]

RECURSIVE Cards(_)
\* the loop over the sorted items, groups without wheels skipped
Cards(items) ==
    IF items = <<>> THEN <<>>
    ELSE (IF Head(items).wheels = <<>> THEN <<>> ELSE <<Card(Head(items))>>)
         \o Cards(Tail(items))

\* WheelIndexGenerator.generate_main_index: what the page varies in
generate_main_index(organized_wheels, now) ==
    [kind |-> "main",
     generated_on |-> now,
     cards |-> Cards(SortItemsReverse(organized_wheels))]

MainPath == <<"i", "n", "d", "e", "x", ".", "h", "t", "m", "l">>

SubPath(key) == key \o <<"/", "i", "n", "d", "e", "x", ".", "h", "t", "m", "l">>

\* Asset names the releases API may report
WheelLinux ==
        <<"f", "l", "a", "s", "h", "_", "a", "t", "t", "n", "_", "3", "-",
          "3", ".", "0", ".", "0", ".", "2", "0", "2", "5", "0", "9", "0",
          "7", ".", "c", "u", "1", "2", "9", "t", "o", "r", "c", "h", "2",
          "8", "0", "c", "x", "x", "1", "1", "a", "b", "i", "t", "r", "u",
          "e", ".", "d", "f", "b", "6", "6", "4", "-", "c", "p", "3", "9",
          "-", "a", "b", "i", "3", "-", "l", "i", "n", "u", "x", "_", "x",
          "8", "6", "_", "6", "4", ".", "w", "h", "l">>

WheelCp310 ==
        <<"f", "l", "a", "s", "h", "_", "a", "t", "t", "n", "_", "3", "-",
          "3", ".", "0", ".", "0", ".", "2", "0", "2", "5", "0", "9", "0",
          "7", ".", "c", "u", "1", "2", "9", "t", "o", "r", "c", "h", "2",
          "8", "0", "c", "x", "x", "1", "1", "a", "b", "i", "t", "r", "u",
          "e", ".", "d", "f", "b", "6", "6", "4", "-", "c", "p", "3", "1",
          "0", "-", "a", "b", "i", "3", "-", "l", "i", "n", "u", "x", "_",
          "x", "8", "6", "_", "6", "4", ".", "w", "h", "l">>

WheelAarch64 ==
        <<"f", "l", "a", "s", "h", "_", "a", "t", "t", "n", "_", "3", "-",
          "3", ".", "0", ".", "0", ".", "2", "0", "2", "5", "0", "9", "0",
          "7", ".", "c", "u", "1", "2", "9", "t", "o", "r", "c", "h", "2",
          "8", "0", "c", "x", "x", "1", "1", "a", "b", "i", "t", "r", "u",
          "e", ".", "d", "f", "b", "6", "6", "4", "-", "c", "p", "3", "9",
          "-", "a", "b", "i", "3", "-", "l", "i", "n", "u", "x", "_", "a",
          "a", "r", "c", "h", "6", "4", ".", "w", "h", "l">>

WheelLinuxOld ==
        <<"f", "l", "a", "s", "h", "_", "a", "t", "t", "n", "_", "3", "-",
          "3", ".", "0", ".", "0", ".", "2", "0", "2", "5", "0", "8", "3",
          "1", ".", "c", "u", "1", "2", "9", "t", "o", "r", "c", "h", "2",
          "8", "0", "c", "x", "x", "1", "1", "a", "b", "i", "t", "r", "u",
          "e", ".", "a", "1", "b", "2", "c", "3", "-", "c", "p", "3", "9",
          "-", "a", "b", "i", "3", "-", "l", "i", "n", "u", "x", "_", "x",
          "8", "6", "_", "6", "4", ".", "w", "h", "l">>

WheelWin ==
        <<"f", "l", "a", "s", "h", "_", "a", "t", "t", "n", "_", "3", "-",
          "3", ".", "0", ".", "0", ".", "2", "0", "2", "5", "0", "9", "1",
          "4", ".", "c", "u", "1", "2", "8", "t", "o", "r", "c", "h", "2",
          "9", "0", "c", "x", "x", "1", "1", "a", "b", "i", "T", "R", "U",
          "E", ".", "0", "c", "9", "e", "1", "f", "-", "c", "p", "3", "9",
          "-", "a", "b", "i", "3", "-", "w", "i", "n", "_", "a", "m", "d",
          "6", "4", ".", "w", "h", "l">>

WheelWinArm ==
        <<"f", "l", "a", "s", "h", "_", "a", "t", "t", "n", "_", "3", "-",
          "3", ".", "0", ".", "0", ".", "2", "0", "2", "5", "0", "9", "1",
          "4", ".", "c", "u", "1", "2", "8", "t", "o", "r", "c", "h", "2",
          "9", "0", "c", "x", "x", "1", "1", "a", "b", "i", "T", "R", "U",
          "E", ".", "0", "c", "9", "e", "1", "f", "-", "c", "p", "3", "9",
          "-", "a", "b", "i", "3", "-", "w", "i", "n", "_", "a", "r", "m",
          "6", "4", ".", "w", "h", "l">>

WheelBeta ==
        <<"f", "l", "a", "s", "h", "_", "a", "t", "t", "n", "_", "3", "-",
          "3", ".", "0", ".", "0", "b", "1", "+", "2", "0", "2", "5", "0",
          "8", "3", "1", "+", "c", "u", "1", "3", "0", "t", "o", "r", "c",
          "h", "2", "9", "1", "c", "x", "x", "1", "1", "a", "b", "i", "f",
          "a", "l", "s", "e", ".", "a", "1", "b", "2", "c", "3", "-", "c",
          "p", "3", "9", "-", "a", "b", "i", "3", "-", "m", "a", "n", "y",
          "l", "i", "n", "u", "x", "_", "2", "_", "2", "8", "-", "l", "i",
          "n", "u", "x", "_", "x", "8", "6", "_", "6", "4", ".", "w", "h",
          "l">>

WheelMac ==
        <<"f", "l", "a", "s", "h", "_", "a", "t", "t", "n", "_", "3", "-",
          "3", ".", "0", ".", "0", ".", "2", "0", "2", "5", "0", "9", "2",
          "1", ".", "c", "u", "1", "2", "9", "t", "o", "r", "c", "h", "2",
          "8", "0", "c", "x", "x", "1", "1", "a", "b", "i", "t", "r", "u",
          "e", ".", "d", "f", "b", "6", "6", "4", "-", "c", "p", "3", "9",
          "-", "a", "b", "i", "3", "-", "m", "a", "c", "o", "s", "x", "_",
          "1", "1", "_", "0", "_", "a", "r", "m", "6", "4", ".", "w", "h",
          "l">>

WheelChecksum ==
        <<"f", "l", "a", "s", "h", "_", "a", "t", "t", "n", "_", "3", "-",
          "3", ".", "0", ".", "0", ".", "2", "0", "2", "5", "0", "8", "3",
          "1", ".", "c", "u", "1", "2", "6", "t", "o", "r", "c", "h", "2",
          "7", "0", "c", "x", "x", "1", "1", "a", "b", "i", "t", "r", "u",
          "e", ".", "a", "1", "b", "2", "c", "3", "-", "c", "p", "3", "9",
          "-", "a", "b", "i", "3", "-", "l", "i", "n", "u", "x", "_", "x",
          "8", "6", "_", "6", "4", ".", "w", "h", "l", ".", "s", "h", "a",
          "2", "5", "6">>

OtherWheel ==
        <<"o", "t", "h", "e", "r", "_", "p", "k", "g", "-", "1", ".", "0",
          ".", "0", "-", "p", "y", "3", "-", "n", "o", "n", "e", "-", "a",
          "n", "y", ".", "w", "h", "l">>

Notes ==
        <<"n", "o", "t", "e", "s", ".", "t", "x", "t">>

Tarball ==
        <<"f", "l", "a", "s", "h", "_", "a", "t", "t", "n", "_", "3", "-",
          "3", ".", "0", ".", "0", ".", "t", "a", "r", ".", "g", "z">>

Asset(name, download_url, created_at) ==
    [name |-> name, browser_download_url |-> download_url,
     size |-> Len(name), created_at |-> created_at]

Release(published_at, assets) == [published_at |-> published_at, assets |-> assets]

\* Releases the releases API may report
ReleasePool ==
    { Release(<<"2", "0", "2", "5", "-", "0", "9", "-", "0", "7", "T", "0", "2", ":", "0", "0", ":", "0", "0", "Z">>,
              <<Asset(WheelLinux, "u01", "2025-09-07T02:10:00Z"),
                Asset(WheelCp310, "u02", "2025-09-07T02:11:00Z"),
                Asset(WheelAarch64, "u03", "2025-09-07T02:12:00Z"),
                Asset(Notes, "u04", "2025-09-07T02:13:00Z")>>),
      Release(<<"2", "0", "2", "5", "-", "0", "9", "-", "1", "4", "T", "0", "2", ":", "0", "0", ":", "0", "0", "Z">>,
              <<Asset(WheelWin, "u05", "2025-09-14T02:10:00Z"),
                Asset(WheelWinArm, "u06", "2025-09-14T02:11:00Z")>>),
      Release(<<"2", "0", "2", "5", "-", "0", "8", "-", "3", "1", "T", "0", "2", ":", "0", "0", ":", "0", "0", "Z">>,
              <<Asset(WheelBeta, "u07", "2025-08-31T02:10:00Z"),
                Asset(WheelLinuxOld, "u08", "2025-08-31T02:11:00Z"),
                Asset(WheelChecksum, "u09", "2025-08-31T02:12:00Z")>>),
      Release(<<"2", "0", "2", "5", "-", "0", "8", "-", "2", "4", "T", "0", "2", ":", "0", "0", ":", "0", "0", "Z">>,
              <<Asset(Tarball, "u10", "2025-08-24T02:10:00Z")>>),
      Release(<<"2", "0", "2", "5", "-", "0", "9", "-", "2", "1", "T", "0", "2", ":", "0", "0", ":", "0", "0", "Z">>,
              <<Asset(OtherWheel, "u11", "2025-09-21T02:10:00Z"),
                Asset(WheelMac, "u12", "2025-09-21T02:11:00Z")>>) }

\* what get_releases may return: distinct releases, in any order
ReleaseLists ==
    UNION {{rs \in [1..n -> ReleasePool] :
               \A i, j \in 1..n : i # j => rs[i] # rs[j]} : n \in 0..MaxReleases}

MatrixIdle ==
    /\ url = None
    /\ log = <<>>
    /\ tags = <<>>
    /\ matches = <<>>
    /\ latest = EmptyDict
    /\ cuda_full_map = EmptyDict
    /\ target = <<>>
    /\ cuda_versions = <<>>
    /\ torch_versions = <<>>
    /\ ci = 0
    /\ matrix = <<>>
    /\ output_file = <<>>
    /\ stdout = <<>>
    /\ exit_code = -1

PagesInit ==
    /\ prog = "pages"
    /\ pc = "start"
    /\ releases = <<>>
    /\ ri = 0
    /\ organized = <<>>
    /\ gi = 0
    /\ files = EmptyDict
    /\ written = {}
    /\ clock = 1
    /\ run = 1
    /\ snapshot = EmptyDict
    /\ MatrixIdle

\* releases = self.get_releases(): the first run draws the release data, a
\* later run is given the same data again
GetReleases ==
    /\ prog = "pages" /\ pc = "start"
    /\ IF run = 1
       THEN \E rs \in ReleaseLists : releases' = rs
       ELSE releases' = releases
    /\ organized' = <<>>
    /\ ri' = 1
    /\ pc' = "organize"
    /\ UNCHANGED <<prog, gi, files, written, clock, run, snapshot, matrixVars>>

\* response.raise_for_status() raises: the run ends with an uncaught error
GetReleasesFails ==
    /\ prog = "pages" /\ pc = "start"
    /\ pc' = "failed"
    /\ UNCHANGED <<prog, releases, ri, organized, gi, files, written, clock,
                   run, snapshot, matrixVars>>

\* one iteration of "for release in releases" of organize_wheels
OrganizeRelease ==
    /\ prog = "pages" /\ pc = "organize"
    /\ ri <= Len(releases)
    /\ organized' = OrganizeAssets(organized, ReleaseDate(releases[ri]),
                                   releases[ri].assets)
    /\ ri' = ri + 1
    /\ UNCHANGED <<prog, pc, releases, gi, files, written, clock, run,
                   snapshot, matrixVars>>

\* organize_wheels has returned: write the landing page
WriteMainIndex ==
    /\ prog = "pages" /\ pc = "organize"
    /\ ri > Len(releases)
    /\ files' = DictSet(files, MainPath, generate_main_index(organized, clock))
    /\ written' = written \cup {MainPath}
    /\ clock' = clock + 1
    /\ gi' = 1
    /\ pc' = "subindex"
    /\ UNCHANGED <<prog, releases, ri, organized, run, snapshot, matrixVars>>

\* one iteration of "for key, group in organized_wheels.items()"
WriteSubIndex ==
    /\ prog = "pages" /\ pc = "subindex"
    /\ gi <= Len(organized)
    /\ LET key == organized[gi].key
           wheels == organized[gi].wheels
           parts == SplitChar(key, "_")
       IN IF wheels = <<>>
          THEN UNCHANGED <<files, written, clock>>
          ELSE /\ Len(parts) = 2
               /\ files' = DictSet(files, SubPath(key),
                              generate_simple_index(wheels, parts[1], parts[2], clock))
               /\ written' = written \cup {SubPath(key)}
               /\ clock' = clock + 1
    /\ gi' = gi + 1
    /\ UNCHANGED <<prog, pc, releases, ri, organized, run, snapshot, matrixVars>>

\* the loop has ended: generate_all_pages returns
FinishPages ==
    /\ prog = "pages" /\ pc = "subindex"
    /\ gi > Len(organized)
    /\ pc' = "done"
    /\ UNCHANGED <<prog, releases, ri, organized, gi, files, written, clock,
                   run, snapshot, matrixVars>>

\* the generator is run again on the same output directory
RunAgain ==
    /\ prog = "pages" /\ pc = "done"
    /\ run < MaxRuns
    /\ snapshot' = files
    /\ run' = run + 1
    /\ written' = {}
    /\ organized' = <<>>
    /\ ri' = 0
    /\ gi' = 0
    /\ pc' = "start"
    /\ UNCHANGED <<prog, releases, files, clock, matrixVars>>

PagesNext ==
    \/ GetReleases
    \/ GetReleasesFails
    \/ OrganizeRelease
    \/ WriteMainIndex
    \/ WriteSubIndex
    \/ FinishPages
    \/ RunAgain

PagesSpec == PagesInit /\ [][PagesNext]_vars

Init == MatrixInit \/ PagesInit

Next == MatrixNext \/ PagesNext

Spec == Init /\ [][Next]_vars

(***************************************************************************)
(* Properties of generate_matrix.py                                        *)
(***************************************************************************)
Linux == <<"l", "i", "n", "u", "x">>
V128 == <<"1", "2", ".", "8">>
V129 == <<"1", "2", ".", "9">>
V130 == <<"1", "3", ".", "0">>
V124 == <<"1", "2", ".", "4">>
T280 == <<"2", ".", "8", ".", "0">>
T291 == <<"2", ".", "9", ".", "1">>

Range(seq) == {seq[i] : i \in 1..Len(seq)}

SetMax(S) == CHOOSE x \in S : \A y \in S : y <= x

\* the exclusion rule as the specification states it
ExceedsCeiling(cuda, torch) ==
    /\ RSplitHead(torch) \in DOMAIN BLACKLIST
    /\ TupleGT(ver2tuple(cuda), ver2tuple(BLACKLIST[RSplitHead(torch)]))

\* C1: no entry of matrix["include"] pairs a torch version whose major.minor
\* is a key of BLACKLIST with a cuda version above that key's ceiling, the
\* versions compared as tuples of integers; on the linux lists the torch
\* 2.8.0 entries of a completed run are exactly those of cuda 12.8 and 12.9.
C1_NoPairAboveCeiling ==
    /\ \A i \in 1..Len(matrix) :
          ~ExceedsCeiling(matrix[i].cuda, matrix[i].torch)
    /\ (prog = "matrix" /\ pc = "done" /\ target = Linux) =>
          {matrix[i].cuda : i \in {j \in 1..Len(matrix) : matrix[j].torch = T280}}
             = {V128, V129}

\* a completed linux run that reached cuda 13.0 and kept its torch 2.9.1 pair
C1_Witness ==
    /\ prog = "matrix" /\ pc = "done" /\ target = Linux
    /\ \E i \in 1..Len(matrix) : matrix[i].cuda = V130 /\ matrix[i].torch = T291

\* C2: when generation completes, matrix["include"] holds exactly one entry
\* for every pair of the target's cuda list crossed with its torch list that
\* the exclusion rule keeps, nothing else, and every entry's cuda_full is its
\* cuda, ".", and the highest patch fetched for that cuda major.minor.
C2_ExactCrossProduct ==
    (prog = "matrix" /\ pc = "done") =>
        /\ \A c \in Range(cuda_versions), t \in Range(torch_versions) :
              Cardinality({i \in 1..Len(matrix) :
                              matrix[i].cuda = c /\ matrix[i].torch = t})
                 = IF ExceedsCeiling(c, t) THEN 0 ELSE 1
        /\ \A i \in 1..Len(matrix) :
              /\ matrix[i].cuda \in Range(cuda_versions)
              /\ matrix[i].torch \in Range(torch_versions)
              /\ matrix[i].cuda_full =
                    matrix[i].cuda \o <<".">> \o
                    IntToStr(SetMax({m[2] : m \in {x \in Range(matches) :
                                                     x[1] = matrix[i].cuda}}))

\* a completed linux run with all five pairs, one of them on patch 10
C2_Witness ==
    /\ prog = "matrix" /\ pc = "done" /\ target = Linux
    /\ Len(matrix) = 5
    /\ \E i \in 1..Len(matrix) :
          matrix[i].cuda_full = V129 \o <<".", "1", "0">>

Swap(seq, i, j) ==
    [k \in 1..Len(seq) |-> IF k = i THEN seq[j] ELSE IF k = j THEN seq[i] ELSE seq[k]]

Reverse(seq) == [k \in 1..Len(seq) |-> seq[Len(seq) + 1 - k]]

RECURSIVE ItemsOf(_)
\* the items of a dict of latest entries, as a list of matches
ItemsOf(d) ==
    IF DOMAIN d = {} THEN <<>>
    ELSE LET k == CHOOSE x \in DOMAIN d : TRUE
         IN <<d[k]>> \o ItemsOf([x \in DOMAIN d \ {k} |-> d[x]])

\* C3: after the reduction, latest has one entry for every major.minor with
\* a matching tag, holding the highest patch among that key's tags; reducing
\* the result again changes nothing, and neither does any reordering of the
\* matches (two entries of one key with equal patch are equal values).
C3_LatestPatchPerMinor ==
    (prog = "matrix" /\ pc = "select") =>
        /\ DOMAIN latest = {m[1] : m \in Range(matches)}
        /\ \A k \in DOMAIN latest :
              latest[k] = <<k, SetMax({m[2] : m \in {x \in Range(matches) : x[1] = k}})>>
        /\ LatestOf(ItemsOf(latest)) = latest
        /\ LatestOf(Reverse(ItemsOf(latest))) = latest
        /\ LatestOf(Reverse(matches)) = latest
        /\ \A i \in 1..Len(matches) : \A j \in (i + 1)..Len(matches) :
              LatestOf(Swap(matches, i, j)) = latest

\* tags 12.4.1 then 12.4.0 were reduced to patch 1, next to a key whose
\* highest patch was seen twice and one whose highest patch came first
C3_Witness ==
    /\ prog = "matrix" /\ pc = "select"
    /\ V124 \in DOMAIN latest /\ latest[V124] = <<V124, 1>>
    /\ \E i \in 1..Len(matches) : \E j \in (i + 1)..Len(matches) :
          matches[i] = matches[j] /\ latest[matches[i][1]] = matches[i]
    /\ \E i \in 1..Len(matches) : \E j \in (i + 1)..Len(matches) :
          matches[i][1] = matches[j][1] /\ matches[i][2] > matches[j][2]

SomeVersionAbsent ==
    \E c \in Range(cuda_versions) : Strip(c) \notin DOMAIN cuda_full_map

\* C4: a run aborts, with a nonzero exit status, exactly when a cuda version
\* of the selected target is absent from the fetched tag map, and then
\* nothing was appended to GITHUB_OUTPUT and nothing was printed; a run
\* completes only when every version is present, and then it printed the
\* matrix and exits with status zero.
C4_AbortEmitsNothing ==
    /\ (prog = "matrix" /\ pc = "aborted") =>
          /\ SomeVersionAbsent
          /\ output_file = <<>> /\ stdout = <<>>
          /\ exit_code > 0
    /\ (prog = "matrix" /\ pc = "done") =>
          /\ ~SomeVersionAbsent
          /\ stdout = <<"Generated matrix:", MatrixJson(matrix)>>
          /\ \A i \in 1..Len(output_file) : output_file[i].value = MatrixJson(matrix)
          /\ exit_code = 0
    /\ (prog = "matrix" /\ pc \notin {"done", "aborted"}) =>
          /\ output_file = <<>> /\ stdout = <<>> /\ exit_code < 0
    /\ (prog = "matrix" /\ pc = "loop" /\ ci > Len(cuda_versions)) =>
          ~SomeVersionAbsent

\* an abort after the pairs of an earlier cuda version were accumulated
C4_Witness ==
    /\ prog = "matrix" /\ pc = "aborted"
    /\ matrix # <<>>
    /\ output_file = <<>> /\ stdout = <<>>

RECURSIVE Concat(_)
Concat(seqs) == IF seqs = <<>> THEN <<>> ELSE Head(seqs) \o Concat(Tail(seqs))

C10_Chain ==
    /\ tags = Concat([i \in 1..Len(log) |-> log[i].resp.results])
    /\ \A i \in 1..Len(log) :
          /\ log[i].url = Some(i)
          /\ i < Len(log) => log[i].resp.next = [kind |-> "url", page |-> i + 1]
    /\ url = None <=>
          (Len(log) > 0 /\ log[Len(log)].resp.next.kind \in {"null", "absent"})
    /\ pc # "fetch" => url = None

\* C10: the fetch loop requests the pages one after another along the next
\* cursors, makes no request once a page's next cursor is null or absent,
\* has then collected the concatenation of the results of the pages visited,
\* in page order, and ends on every finite chain of pages.
C10_Pagination ==
    /\ []C10_Chain
    /\ [][url = None => log' = log]_vars
    /\ <>(url = None)

\* a chain of three pages whose last page has no next member
C10_Witness ==
    /\ prog = "matrix" /\ pc = "reduce"
    /\ Len(log) = 3
    /\ log[3].resp.next.kind = "absent"
    /\ tags # <<>>

(***************************************************************************)
(* Properties of generate_pages.py                                         *)
(***************************************************************************)
\* the releases organize_wheels has gone through
ProcessedReleases ==
    IF prog = "pages" /\ pc = "organize" THEN 1..(ri - 1)
    ELSE IF prog = "pages" /\ pc \in {"subindex", "done"} THEN 1..Len(releases)
    ELSE {}

\* the assets of those releases, each with the date of its release
ProcessedAssets ==
    UNION {{[asset |-> releases[r].assets[a],
             date |-> Slice(releases[r].published_at, 1, 10)] :
               a \in 1..Len(releases[r].assets)} : r \in ProcessedReleases}

\* an asset the index lists: the name ends in .whl and matches the grammar
Indexable(name) == EndsWith(name, DotWhl) /\ WheelMatch(name) # None

\* the group key of a name that matches the grammar
KeyOfName(name) ==
    <<"c", "u">> \o WheelMatch(name)[1].cuda \o <<"_", "t", "o", "r", "c", "h">>
        \o WheelMatch(name)[1].torch

IndexedAssets == {x \in ProcessedAssets : Indexable(x.asset.name)}

\* the places of organized that hold a wheel
WheelSlots ==
    UNION {{<<g, i>> : i \in 1..Len(organized[g].wheels)} : g \in 1..Len(organized)}

WheelAt(slot) == organized[slot[1]].wheels[slot[2]]

PlatformOf(wheel) == WheelMatch(wheel.filename)[1].platform

Cu129Torch280 == <<"c", "u", "1", "2", "9", "_", "t", "o", "r", "c", "h", "2", "8", "0">>

\* C5: the cp310 filename of the specification parses to cuda "129", torch
\* "280", python "3.10" and platform "linux_x86_64", adds neither platform
\* tag, and a run that was given it lists it under cu129_torch280.
C5_Cp310Parsed ==
    (prog = "pages" /\ pc = "done"
       /\ \E x \in ProcessedAssets : x.asset.name = WheelCp310) =>
        /\ parse_wheel_info(WheelCp310) # None
        /\ parse_wheel_info(WheelCp310)[1].cuda_version = <<"1", "2", "9">>
        /\ parse_wheel_info(WheelCp310)[1].torch_version = <<"2", "8", "0">>
        /\ parse_wheel_info(WheelCp310)[1].python_version = <<"3", ".", "1", "0">>
        /\ parse_wheel_info(WheelCp310)[1].platform = <<"l", "i", "n", "u", "x", "_", "x", "8", "6", "_", "6", "4">>
        /\ PlatformTags(parse_wheel_info(WheelCp310)[1].platform) = {}
        /\ \E slot \in WheelSlots :
              /\ WheelAt(slot).filename = WheelCp310
              /\ WheelAt(slot).python_version = <<"3", ".", "1", "0">>
              /\ organized[slot[1]].key = Cu129Torch280

\* C6: every asset gone through whose name ends in .whl and matches the
\* grammar is stored once, in the one group whose key is "cu<cuda>_torch
\* <torch>" of its own parsed codes; every stored wheel's cuda_version and
\* torch_version rebuild the key it is stored under; an asset that does not
\* match is stored nowhere; no two groups share a key.
C6_OneGroupPerWheel ==
    /\ \A slot \in WheelSlots :
          organized[slot[1]].key =
             <<"c", "u">> \o WheelAt(slot).cuda_version \o <<"_", "t", "o", "r", "c", "h">>
                \o WheelAt(slot).torch_version
    /\ \A g, h \in 1..Len(organized) :
          organized[g].key = organized[h].key => g = h
    /\ \A x \in ProcessedAssets :
          LET slots == {slot \in WheelSlots :
                          WheelAt(slot).download_url = x.asset.browser_download_url}
          IN IF Indexable(x.asset.name)
             THEN /\ Cardinality(slots) = 1
                  /\ \A slot \in slots :
                        /\ organized[slot[1]].key = KeyOfName(x.asset.name)
                        /\ WheelAt(slot).filename = x.asset.name
                        /\ WheelAt(slot).cuda_version = WheelMatch(x.asset.name)[1].cuda
                        /\ WheelAt(slot).torch_version = WheelMatch(x.asset.name)[1].torch
             ELSE slots = {}

\* two releases filled one group, and a .whl asset outside the grammar and
\* an asset that is no wheel were dropped
C6_Witness ==
    /\ prog = "pages" /\ pc = "done"
    /\ \E slot1, slot2 \in WheelSlots :
          /\ slot1[1] = slot2[1]
          /\ WheelAt(slot1).release_date # WheelAt(slot2).release_date
    /\ \E x \in ProcessedAssets :
          EndsWith(x.asset.name, DotWhl) /\ ~Indexable(x.asset.name)
    /\ \E x \in ProcessedAssets : ~EndsWith(x.asset.name, DotWhl)

ExpectedKeys == {KeyOfName(x.asset.name) : x \in IndexedAssets}

\* C7: no group of organized is ever empty, the groups are those of the
\* matching assets gone through and hold those assets and no other (so a
\* release without a .whl asset adds nothing), and when generate_all_pages
\* has completed the sub-index pages written are those of the groups, and so
\* are the cards of the landing page.
C7_PagesAreGroups ==
    /\ \A g \in 1..Len(organized) : organized[g].wheels # <<>>
    /\ {organized[g].key : g \in 1..Len(organized)} = ExpectedKeys
    /\ {WheelAt(slot).download_url : slot \in WheelSlots}
          = {x.asset.browser_download_url : x \in IndexedAssets}
    /\ Cardinality(WheelSlots) = Cardinality(IndexedAssets)
    /\ (prog = "pages" /\ pc = "subindex") =>
          written \ {MainPath} \subseteq {SubPath(k) : k \in ExpectedKeys}
    /\ (prog = "pages" /\ pc = "done") =>
          /\ MainPath \in written
          /\ written \ {MainPath} = {SubPath(k) : k \in ExpectedKeys}
          /\ written \subseteq DOMAIN files
          /\ LET cards == files[MainPath].cards
             IN /\ {cards[i].href : i \in 1..Len(cards)}
                      = {SubPath(k) : k \in ExpectedKeys}
                /\ Len(cards) = Cardinality(ExpectedKeys)

\* a completed run over a release without any .whl asset and a release that
\* fills two groups
C7_Witness ==
    /\ prog = "pages" /\ pc = "done"
    /\ \E r \in 1..Len(releases) :
          /\ releases[r].assets # <<>>
          /\ \A a \in 1..Len(releases[r].assets) :
                ~EndsWith(releases[r].assets[a].name, DotWhl)
    /\ Cardinality(written) = 3
    /\ Len(organized) = 2

Untimed(page) == [page EXCEPT !.generated_on = 0]

\* the release dates of the matching assets of a group
DatesOfKey(k) == {x.date : x \in {y \in IndexedAssets : KeyOfName(y.asset.name) = k}}

\* C8: a completed run's pages depend on the release data alone, but for the
\* time of generation: the cards are in descending key order, each with the
\* number of its group's assets, the greatest of their release dates and the
\* badges of its group's tags; the links of a sub-index are in ascending
\* filename order; and a second run on the same release data writes the same
\* files with the same content except for the time of generation.
C8_RerunSamePages ==
    (prog = "pages" /\ pc = "done") =>
        /\ LET cards == files[MainPath].cards
           IN /\ \A i, j \in 1..Len(cards) :
                    i < j => StrLess(cards[j].find_links, cards[i].find_links)
              /\ \A i \in 1..Len(cards) :
                    LET k == cards[i].find_links
                        g == GroupIndex(organized, k)
                    IN /\ g > 0
                       /\ cards[i].wheel_count =
                             Cardinality({x \in IndexedAssets : KeyOfName(x.asset.name) = k})
                       /\ cards[i].last_updated \in DatesOfKey(k)
                       /\ \A d \in DatesOfKey(k) : ~StrLess(cards[i].last_updated, d)
                       /\ cards[i].tags_html =
                             (IF "windows" \in organized[g].tags
                              THEN <<"windows-badge">> ELSE <<>>)
                             \o (IF "arm64" \in organized[g].tags
                                 THEN <<"arm64-badge">> ELSE <<>>)
        /\ \A path \in written \ {MainPath} :
              LET links == files[path].links
              IN \A i, j \in 1..Len(links) :
                    i < j => ~StrLess(links[j].text, links[i].text)
        /\ run > 1 =>
              /\ written = DOMAIN snapshot
              /\ \A path \in written :
                    /\ Untimed(files[path]) = Untimed(snapshot[path])
                    /\ files[path].generated_on # snapshot[path].generated_on

\* a second run has completed over two groups, one of them listing its
\* wheels in another order than the releases gave them
C8_Witness ==
    /\ prog = "pages" /\ pc = "done" /\ run = 2
    /\ Len(files[MainPath].cards) >= 2
    /\ \E g \in 1..Len(organized) :
          /\ Len(organized[g].wheels) >= 3
          /\ files[SubPath(organized[g].key)].links[1].text
                # organized[g].wheels[1].filename
    /\ \E slot1, slot2 \in WheelSlots :
          /\ slot1[1] = slot2[1]
          /\ WheelAt(slot1).release_date # WheelAt(slot2).release_date

HasWin(wheel) == Contains(PlatformOf(wheel), <<"w", "i", "n">>)

HasArm(wheel) ==
    \/ Contains(PlatformOf(wheel), <<"a", "a", "r", "c", "h", "6", "4">>)
    \/ Contains(PlatformOf(wheel), <<"a", "r", "m", "6", "4">>)

\* C9 as stated: a group is tagged "windows" exactly when one of its assets
\* has a platform containing "win", and "arm64" exactly when one of its
\* assets has a platform containing "aarch64" or "arm64", independently.
C9_TagsIndependent ==
    \A g \in 1..Len(organized) :
        /\ "windows" \in organized[g].tags <=>
              \E i \in 1..Len(organized[g].wheels) : HasWin(organized[g].wheels[i])
        /\ "arm64" \in organized[g].tags <=>
              \E i \in 1..Len(organized[g].wheels) : HasArm(organized[g].wheels[i])

\* C9 as amended: a group is tagged "windows" exactly when one of its assets
\* has a platform containing "win", and "arm64" exactly when one of its
\* assets has a platform that contains "aarch64" or "arm64" and does not
\* contain "win"; the group has no other tag.
C9_TagsWindowsFirst ==
    \A g \in 1..Len(organized) :
        /\ "windows" \in organized[g].tags <=>
              \E i \in 1..Len(organized[g].wheels) : HasWin(organized[g].wheels[i])
        /\ "arm64" \in organized[g].tags <=>
              \E i \in 1..Len(organized[g].wheels) :
                 HasArm(organized[g].wheels[i]) /\ ~HasWin(organized[g].wheels[i])
        /\ organized[g].tags \subseteq {"windows", "arm64"}

\* a group holding a win_arm64 wheel is tagged "windows" alone, next to a
\* group tagged "arm64"
C9_Witness ==
    /\ prog = "pages" /\ pc = "done"
    /\ \E g \in 1..Len(organized) :
          /\ organized[g].tags = {"windows"}
          /\ \E i \in 1..Len(organized[g].wheels) :
                HasWin(organized[g].wheels[i]) /\ HasArm(organized[g].wheels[i])
    /\ \E g \in 1..Len(organized) : organized[g].tags = {"arm64"}

=============================================================================
